---- MODULE Spec2Model ----
(***************************************************************************)
(* Planning workflow of mission-control: the question catalog, the         *)
(* generate / read route (POST and GET /api/tasks/[id]/planning), the      *)
(* answer route (POST /api/tasks/[id]/planning/answer) and the lock        *)
(* transition (POST /api/tasks/[id]/planning/approve).                     *)
(*                                                                         *)
(* The store is accessed through synchronous prepared statements, and a    *)
(* route handler suspends only at its awaits (await params, await          *)
(* request.json()).  Each action below is therefore one continuation of a  *)
(* handler: the code that runs, without interruption, from one await to    *)
(* the response.  Calls that are in flight at the same time interleave at  *)
(* the awaits.                                                             *)
(***************************************************************************)
EXTENDS Integers, Sequences, FiniteSets, Bags, TLC

VARIABLES
    catalog,             \* the question catalog the process was loaded with
    tasks,               \* table tasks: id -> status
    planning_questions,  \* table planning_questions: a set of rows
    planning_specs,      \* table planning_specs: a set of rows
    calls,               \* requests in flight, each with its position
    issued,              \* number of requests received so far
    now,                 \* the store's clock, datetime('now')
    last                 \* the response the latest step sent, with its request, if it sent one

vars == <<catalog, tasks, planning_questions, planning_specs, calls, issued, now, last>>

-----------------------------------------------------------------------------
(* Bounds of the model *)

MaxCalls == 4           \* requests received in one behaviour
MaxInFlight == 2        \* requests in flight at the same time
MaxTime == 1            \* ticks of the clock
MaxTotal == 200         \* largest total the percentage is computed for
MaxFetches == 7         \* requests one tab sends in one behaviour

-----------------------------------------------------------------------------
(* Values *)

\* SQL NULL: the value of a column the INSERT leaves out
NULL == "<null>"

\* a field missing from the request body
Undefined == "<undefined>"

\* JavaScript truthiness of a string-or-missing value: !v is true for
\* undefined and for the empty string
Truthy(v) == v \notin {Undefined, NULL, ""}

-----------------------------------------------------------------------------
(* Question catalog *)

categories ==
    <<"goal", "audience", "scope", "design", "content", "technical", "timeline", "constraints">>

\* a template with an options array
MC(q, opts) == [question |-> q, hasOptions |-> TRUE, options |-> opts]

\* a template without options
TXT(q) == [question |-> q, hasOptions |-> FALSE, options |-> <<>>]

QUESTION_TEMPLATES ==
    [goal |-> <<
        MC("What is the primary outcome or goal of this task?",
           <<"Generate leads/sales", "Provide information", "Collect user data", "Build brand awareness", "Other">>),
        MC("How will you measure success?",
           <<"Conversion rate", "Page views/traffic", "Form submissions", "User engagement", "Other">>) >>,
     audience |-> <<
        MC("Who is the primary target audience?",
           <<"B2B professionals", "B2C consumers", "Existing customers", "New prospects", "Other">>),
        TXT("What problem does your audience face that this addresses?") >>,
     scope |-> <<
        TXT("What is included in this task?"),
        TXT("What is explicitly NOT included (out of scope)?") >>,
     design |-> <<
        TXT("Are there any reference sites or designs to follow?"),
        MC("What is the visual style/tone?",
           <<"Professional/Corporate", "Modern/Minimal", "Bold/Creative", "Friendly/Casual", "Other">>),
        MC("Do you have brand colors or assets to use?",
           <<"Yes, I will provide them", "No, use your best judgment", "Use existing brand from website", "Other">>) >>,
     content |-> <<
        MC("Do you have the content/copy ready?",
           <<"Yes, I will provide it", "No, please write it", "I have rough notes to expand", "Other">>),
        TXT("Are there specific messages or points that must be included?") >>,
     technical |-> <<
        MC("What technology/platform should be used?",
           <<"Static HTML/CSS", "React/Next.js", "WordPress", "No preference", "Other">>),
        MC("Are there any integrations needed?",
           <<"Form submission to email", "CRM integration", "Analytics tracking", "None needed", "Other">>) >>,
     timeline |-> <<
        MC("When do you need this completed?",
           <<"ASAP (within 24 hours)", "This week", "Next week", "No rush", "Specific date">>) >>,
     constraints |-> <<
        TXT("Are there any specific constraints or requirements?"),
        MC("Is there a budget or resource limit?",
           <<"No budget limit", "Keep it simple/minimal", "Medium complexity okay", "Other">>) >>]

\* The catalog restricted to the categories of cats, which are in category
\* order: a sequence of [category, templates], in iteration order.
CatalogOf(cats) ==
    [i \in 1..Len(cats) |-> [category |-> cats[i], templates |-> QUESTION_TEMPLATES[cats[i]]]]

\* The categories Spec generates from: one multiple-choice and one text template
SpecCategories == <<"audience">>

\* Number of templates of a catalog
RECURSIVE CatalogSize(_)
CatalogSize(cat) ==
    IF cat = <<>> THEN 0 ELSE Len(Head(cat).templates) + CatalogSize(Tail(cat))

\* The whole catalog
FullCatalog == CatalogOf(categories)

-----------------------------------------------------------------------------
(* Generation of the question rows *)

Letters ==
    <<"A", "B", "C", "D", "E", "F", "G", "H", "I", "J", "K", "L", "M",
      "N", "O", "P", "Q", "R", "S", "T", "U", "V", "W", "X", "Y", "Z">>

\* String.fromCharCode for the codes the catalog can produce
FromCharCode(code) ==
    IF code \in 65..90 THEN Letters[code - 64] ELSE "<" \o ToString(code) \o ">"

\* the identifiers counted from 1 instead of 0
MapOptionsFromOne(options) ==
    [k \in 1..Len(options) |-> [id |-> FromCharCode(65 + k), label |-> options[k]]]

\* template.options.map((label, idx) => ({ id: String.fromCharCode(65 + idx), label }))
MapOptions(options) ==
    [k \in 1..Len(options) |-> [id |-> FromCharCode(65 + (k - 1)), label |-> options[k]]]

\* a timestamp column holding SQL NULL
NullTime == [null |-> TRUE, at |-> 0]

\* the value datetime('now') stores at clock reading t
DateTime(t) == [null |-> FALSE, at |-> t]

\* a TEXT column holding SQL NULL
NullText == [null |-> TRUE, json |-> <<>>]

\* JSON.stringify of the choice list: the stored text, which is never the
\* empty string; the text is kept as the value it denotes
JSONstringify(v) == [null |-> FALSE, json |-> v]

\* JSON.parse of a stored text
JSONparse(s) == s.json

\* the kind decided by template.options !== null, true of every template
QuestionTypeNotNull(template) == "multiple_choice"

\* template.options ? 'multiple_choice' : 'text'
QuestionType(template) == IF template.hasOptions THEN "multiple_choice" ELSE "text"

\* template.options ? JSON.stringify(...) : null
OptionsColumn(template) ==
    IF template.hasOptions THEN JSONstringify(MapOptions(template.options)) ELSE NullText

\* a fresh row id: crypto.randomUUID(), here the n-th id handed out for the task
NewId(taskId, n) == taskId \o "-" \o ToString(n)

\* the row insertQuestion.run(...) inserts; answer and answered_at are left out
NewRow(id, taskId, category, template, sortOrder) ==
    [id |-> id, task_id |-> taskId, category |-> category,
     question |-> template.question, question_type |-> QuestionType(template),
     options |-> OptionsColumn(template), sort_order |-> sortOrder,
     answer |-> NULL, answered_at |-> NullTime]

\* for (const template of templates) { ... insertQuestion.run(..., sortOrder++) }
\* st = [rows, sortOrder]: the rows inserted so far, in insertion order, and the counter
RECURSIVE TemplateLoop(_, _, _, _, _, _)
TemplateLoop(st, taskId, category, templates, j, firstId) ==
    IF j > Len(templates) THEN st
    ELSE TemplateLoop(
            [rows |-> Append(st.rows,
                        NewRow(NewId(taskId, firstId + Len(st.rows)), taskId, category,
                               templates[j], st.sortOrder)),
             sortOrder |-> st.sortOrder + 1],
            taskId, category, templates, j + 1, firstId)

\* the counter declared inside the outer loop, so that it restarts with every category
RECURSIVE CategoryLoopReset(_, _, _, _, _)
CategoryLoopReset(st, taskId, cat, i, firstId) ==
    IF i > Len(cat) THEN st
    ELSE CategoryLoopReset(
            TemplateLoop([st EXCEPT !.sortOrder = 0], taskId, cat[i].category,
                         cat[i].templates, 1, firstId),
            taskId, cat, i + 1, firstId)

\* for (const category of categories) { const templates = QUESTION_TEMPLATES[category]; ... }
RECURSIVE CategoryLoop(_, _, _, _, _)
CategoryLoop(st, taskId, cat, i, firstId) ==
    IF i > Len(cat) THEN st
    ELSE CategoryLoop(
            TemplateLoop(st, taskId, cat[i].category, cat[i].templates, 1, firstId),
            taskId, cat, i + 1, firstId)

\* let sortOrder = 0; the two loops: the batch, in insertion order
GenerateRows(taskId, cat, firstId) ==
    CategoryLoop([rows |-> <<>>, sortOrder |-> 0], taskId, cat, 1, firstId).rows

-----------------------------------------------------------------------------
(* The store *)

\* the task ids callers use; a task exists once the task store has created it
TaskIds == {"t1", "t2"}

\* the lookup that finds a task for every id
TaskExistsAlways(taskId) == TRUE

\* SELECT * FROM tasks WHERE id = ?
TaskExists(taskId) == taskId \in DOMAIN tasks

\* SELECT * FROM planning_questions WHERE task_id = ?
QuestionsOf(taskId) == {q \in planning_questions : q.task_id = taskId}

\* SELECT COUNT(*) as count FROM planning_questions WHERE task_id = ?
CountQuestions(taskId) == Cardinality(QuestionsOf(taskId))

\* the lookup by id alone, without the task
FindQuestionAnyTask(questionId, taskId) ==
    {q \in planning_questions : q.id = questionId}

\* SELECT * FROM planning_questions WHERE id = ? AND task_id = ?
FindQuestion(questionId, taskId) ==
    {q \in planning_questions : q.id = questionId /\ q.task_id = taskId}

\* the lookup that finds no Spec
SpecsOfNone(taskId) == {}

\* SELECT * FROM planning_specs WHERE task_id = ?
SpecsOf(taskId) == {s \in planning_specs : s.task_id = taskId}

\* ... ORDER BY sort_order: rows with equal sort_order come in either order
RECURSIVE OrderBySortOrder(_)
OrderBySortOrder(rows) ==
    IF rows = {} THEN <<>>
    ELSE LET first == CHOOSE r \in rows : \A o \in rows : r.sort_order <= o.sort_order
         IN  <<first>> \o OrderBySortOrder(rows \ {first})

\* the update restricted to rows without an answer: the first write wins
UpdateAnswerIfUnanswered(questionId, answer) ==
    {IF q.id = questionId /\ q.answer = NULL
        THEN [q EXCEPT !.answer = answer, !.answered_at = DateTime(now)] ELSE q
        : q \in planning_questions}

\* UPDATE planning_questions SET answer = ?, answered_at = datetime('now') WHERE id = ?
UpdateAnswer(questionId, answer) ==
    {IF q.id = questionId THEN [q EXCEPT !.answer = answer, !.answered_at = DateTime(now)] ELSE q
        : q \in planning_questions}

\* the set of the first k elements of a sequence
FirstK(seq, k) == {seq[i] : i \in 1..k}

-----------------------------------------------------------------------------
(* Responses *)

\* options: q.options ? JSON.parse(q.options) : undefined
ParseOptions(q) ==
    [id |-> q.id, task_id |-> q.task_id, category |-> q.category,
     question |-> q.question, question_type |-> q.question_type,
     sort_order |-> q.sort_order, answer |-> q.answer, answered_at |-> q.answered_at,
     options |-> IF q.options.null THEN <<>> ELSE JSONparse(q.options),
     hasOptions |-> ~q.options.null]

\* questions.map(q => ({ ...q, options: ... })) over the ordered rows
ParsedQuestions(taskId) ==
    LET rows == OrderBySortOrder(QuestionsOf(taskId))
    IN  [i \in 1..Len(rows) |-> ParseOptions(rows[i])]

\* the count that leaves the last question out
AnsweredButLast(questions) ==
    Cardinality({i \in 1..(Len(questions) - 1) : Truthy(questions[i].answer)})

\* parsedQuestions.filter(q => q.answer).length
Answered(questions) == Cardinality({i \in 1..Len(questions) : Truthy(questions[i].answer)})

\* the rounding that drops the fraction
MathTrunc(num, den) == num \div den

\* the rounding up to the next integer
MathCeil(num, den) == (num + den - 1) \div den

\* Math.round(x) for x = num / den >= 0: the nearest integer, halves rounded up.
MathRound(num, den) == (2 * num + den) \div (2 * den)

\* The pairs <<answered, total>>, total below 240, whose quotient times 100
\* is a half in exact arithmetic while the double (answered / total) * 100
\* lies just below it, so that Math.round rounds it down.  For every other
\* pair with total below 240 the double rounds as the exact value does.
HalfRoundedDown ==
    {<<23, 40>>, <<46, 80>>, <<69, 120>>, <<92, 160>>,
     <<29, 200>>, <<57, 200>>, <<113, 200>>, <<115, 200>>}

\* total > 0 ? Math.round((answered / total) * 100) : 0
Percentage(answered, total) ==
    IF total > 0
    THEN IF <<answered, total>> \in HalfRoundedDown
         THEN MathRound(answered * 100, total) - 1
         ELSE MathRound(answered * 100, total)
    ELSE 0

\* the PlanningState with isLocked taken from the questions, not from the spec
PlanningStateOfLockedWhenComplete(taskId) ==
    LET parsedQuestions == ParsedQuestions(taskId)
        answered == Answered(parsedQuestions)
        total == Len(parsedQuestions)
    IN  [questions |-> parsedQuestions,
         spec |-> SpecsOf(taskId),
         progress |-> [total |-> total, answered |-> answered,
                       percentage |-> Percentage(answered, total)],
         isLocked |-> answered = total]

\* the PlanningState that GET builds
PlanningStateOf(taskId) ==
    LET parsedQuestions == ParsedQuestions(taskId)
        answered == Answered(parsedQuestions)
        total == Len(parsedQuestions)
    IN  [questions |-> parsedQuestions,
         spec |-> SpecsOf(taskId),
         progress |-> [total |-> total, answered |-> answered,
                       percentage |-> Percentage(answered, total)],
         isLocked |-> SpecsOf(taskId) # {}]

\* the PlanningState built from the rows read before the batch was inserted
GeneratedStateStale(rows) ==
    [questions |-> <<>>,
     spec |-> {},
     progress |-> [total |-> 0, answered |-> 0, percentage |-> 0],
     isLocked |-> FALSE]

\* the PlanningState that POST builds from the rows it reads back
GeneratedState(rows) ==
    LET parsedQuestions == [i \in 1..Len(rows) |-> ParseOptions(rows[i])]
    IN  [questions |-> parsedQuestions,
         spec |-> {},
         progress |-> [total |-> Len(parsedQuestions), answered |-> 0, percentage |-> 0],
         isLocked |-> FALSE]

NoBody == [questions |-> <<>>, spec |-> {}]

\* the response to call c: HTTP status, the outcome it stands for, the JSON body
Response(c, questionId, answer, wellFormed, status, outcome, body) ==
    [op |-> c.op, taskId |-> c.taskId, questionId |-> questionId,
     answer |-> answer, wellFormed |-> wellFormed,
     status |-> status, outcome |-> outcome, body |-> body]

NoResponse ==
    [op |-> "none", taskId |-> Undefined, questionId |-> Undefined,
     answer |-> Undefined, wellFormed |-> TRUE,
     status |-> 0, outcome |-> "none", body |-> NoBody]

-----------------------------------------------------------------------------
(* Requests *)

\* values a caller sends as the answer field: missing, empty, a choice
\* label, free text (other JSON types are not modelled)
AnswerValues == {Undefined, "", "Other", "Other: free text"}

\* an id that no row has
UnknownId == "q0"

\* values a caller sends as the questionId field: missing, the id of a
\* stored row (of any task), or an id that no row has
QuestionIdValues == {Undefined, UnknownId} \cup {q.id : q \in planning_questions}

\* a request as received: pc is the await its handler is suspended at; the
\* handler has not read the body yet
Call(op, taskId) ==
    [op |-> op, taskId |-> taskId, pc |-> "params"]

\* the requests in flight
InFlight == BagToSet(calls)

Receive(call) ==
    /\ issued < MaxCalls
    /\ BagCardinality(calls) < MaxInFlight
    /\ calls' = calls (+) SetToBag({call})
    /\ issued' = issued + 1
    /\ last' = NoResponse
    /\ UNCHANGED <<catalog, tasks, planning_questions, planning_specs, now>>

\* the handler of call c responds to the request with the given body fields
Respond(c, questionId, answer, wellFormed, status, outcome, body) ==
    /\ calls' = calls (-) SetToBag({c})
    /\ last' = Response(c, questionId, answer, wellFormed, status, outcome, body)
    /\ UNCHANGED <<catalog, issued, now>>

\* the response to a request without a body
RespondTo(c, status, outcome, body) ==
    Respond(c, Undefined, Undefined, TRUE, status, outcome, body)

ReceiveRead == \E t \in TaskIds : Receive(Call("read", t))

ReceiveGenerate == \E t \in TaskIds : Receive(Call("generate", t))

ReceiveLock == \E t \in TaskIds : Receive(Call("lock", t))

ReceiveAnswer == \E t \in TaskIds : Receive(Call("answer", t))

\* the task store creates a task
CreateTask ==
    /\ \E t \in TaskIds \ DOMAIN tasks : tasks' = (t :> "inbox") @@ tasks
    /\ last' = NoResponse
    /\ UNCHANGED <<catalog, planning_questions, planning_specs, calls, issued, now>>

\* the store's clock advances
Tick ==
    /\ now < MaxTime
    /\ now' = now + 1
    /\ last' = NoResponse
    /\ UNCHANGED <<catalog, tasks, planning_questions, planning_specs, calls, issued>>

-----------------------------------------------------------------------------
(* GET /api/tasks/[id]/planning *)

\* a read that marks the task as being planned
ReadBodyMarksPlanning(c) ==
    /\ c.op = "read" /\ c.pc = "params"
    /\ UNCHANGED <<planning_questions, planning_specs>>
    /\ IF ~TaskExists(c.taskId)
       THEN /\ UNCHANGED tasks
            /\ RespondTo(c, 404, "NotFound", NoBody)
       ELSE /\ tasks' = [tasks EXCEPT ![c.taskId] = "planning"]
            /\ RespondTo(c, 200, "OK", PlanningStateOf(c.taskId))

ReadBody(c) ==
    /\ c.op = "read" /\ c.pc = "params"
    /\ UNCHANGED <<tasks, planning_questions, planning_specs>>
    /\ IF ~TaskExists(c.taskId)
       THEN RespondTo(c, 404, "NotFound", NoBody)
       ELSE RespondTo(c, 200, "OK", PlanningStateOf(c.taskId))

-----------------------------------------------------------------------------
(* POST /api/tasks/[id]/planning *)

\* the existence check off by one
QuestionsExistOffByOne(taskId) == CountQuestions(taskId) > 1

\* the existence check left out
QuestionsExistNever(taskId) == FALSE

\* existingQuestions.count > 0
QuestionsExist(taskId) == CountQuestions(taskId) > 0

\* the handler runs to its response
GenerateBody(c) ==
    /\ c.op = "generate" /\ c.pc = "params"
    /\ UNCHANGED planning_specs
    /\ IF ~TaskExists(c.taskId)
       THEN /\ UNCHANGED <<tasks, planning_questions>>
            /\ RespondTo(c, 404, "NotFound", NoBody)
       ELSE IF QuestionsExist(c.taskId)
       THEN /\ UNCHANGED <<tasks, planning_questions>>
            /\ RespondTo(c, 400, "AlreadyGenerated", NoBody)
       ELSE LET batch == GenerateRows(c.taskId, catalog, CountQuestions(c.taskId) + 1)
            IN  /\ tasks' = [tasks EXCEPT ![c.taskId] = "planning"]
                /\ planning_questions' = planning_questions \cup FirstK(batch, Len(batch))
                /\ RespondTo(c, 200, "OK",
                             GeneratedState(OrderBySortOrder(
                                {q \in planning_questions' : q.task_id = c.taskId})))

\* insertQuestion.run throws after k rows were inserted: the catch block responds
GenerateBodyThrows(c) ==
    /\ c.op = "generate" /\ c.pc = "params"
    /\ TaskExists(c.taskId)
    /\ ~QuestionsExist(c.taskId)
    /\ LET batch == GenerateRows(c.taskId, catalog, CountQuestions(c.taskId) + 1)
       IN  \E k \in 0..(Len(batch) - 1) :
             /\ tasks' = [tasks EXCEPT ![c.taskId] = "planning"]
             /\ planning_questions' = planning_questions \cup FirstK(batch, k)
             /\ RespondTo(c, 500, "InternalFailure", NoBody)
    /\ UNCHANGED planning_specs

-----------------------------------------------------------------------------
(* POST /api/tasks/[id]/planning/answer *)

\* the lock check left out
SpecLockedNever(taskId) == FALSE

\* the lock check that looks at the Specs of all tasks
SpecLockedAnyTask(taskId) == planning_specs # {}

\* if (spec): the task has a row in planning_specs
SpecLocked(taskId) == SpecsOf(taskId) # {}

\* only a missing field is rejected, an empty string passes
MissingFieldOnlyUndefined(questionId, answer) == questionId = Undefined \/ answer = Undefined

\* !questionId || !answer
MissingField(questionId, answer) == ~Truthy(questionId) \/ ~Truthy(answer)

\* the handler runs to its response; the body read is either not a JSON
\* object (wellFormed = FALSE: request.json() or the destructuring throws)
\* or an object with the fields questionId and answer; the row updated is
\* always found again, so the response of line 50 is never sent
AnswerBody(c) ==
    /\ c.op = "answer" /\ c.pc = "params"
    /\ UNCHANGED <<tasks, planning_specs>>
    /\ \E wellFormed \in BOOLEAN :
       \E questionId \in IF wellFormed THEN QuestionIdValues ELSE {Undefined} :
       \E answer \in IF wellFormed THEN AnswerValues ELSE {Undefined} :
        IF ~wellFormed
        THEN /\ UNCHANGED planning_questions
             /\ Respond(c, questionId, answer, wellFormed, 500, "InternalFailure", NoBody)
        ELSE IF MissingField(questionId, answer)
        THEN /\ UNCHANGED planning_questions
             /\ Respond(c, questionId, answer, wellFormed, 400, "InvalidInput", NoBody)
        ELSE IF FindQuestion(questionId, c.taskId) = {}
        THEN /\ UNCHANGED planning_questions
             /\ Respond(c, questionId, answer, wellFormed, 404, "NotFound", NoBody)
        ELSE IF SpecLocked(c.taskId)
        THEN /\ UNCHANGED planning_questions
             /\ Respond(c, questionId, answer, wellFormed, 400, "Locked", NoBody)
        ELSE /\ planning_questions' = UpdateAnswer(questionId, answer)
             /\ Respond(c, questionId, answer, wellFormed, 200, "OK",
                        [questions |->
                             <<ParseOptions(CHOOSE q \in planning_questions' : q.id = questionId)>>,
                         spec |-> {}])

-----------------------------------------------------------------------------
(* POST /api/tasks/[id]/planning/approve: the lock transition *)

\* the {category, prompt, answer} triples the document is synthesized from
Triples(taskId) ==
    LET rows == OrderBySortOrder(QuestionsOf(taskId))
    IN  [i \in 1..Len(rows) |->
            [category |-> rows[i].category, question |-> rows[i].question,
             answer |-> rows[i].answer]]

\* the document synthesizer: an opaque function of the triples
SpecMarkdown(triples) == triples

\* answered == total and total > 0
Complete(taskId) ==
    /\ CountQuestions(taskId) > 0
    /\ \A q \in QuestionsOf(taskId) : Truthy(q.answer)

LockBody(c) ==
    /\ c.op = "lock" /\ c.pc = "params"
    /\ UNCHANGED <<tasks, planning_questions>>
    /\ IF ~TaskExists(c.taskId)
       THEN /\ UNCHANGED planning_specs
            /\ RespondTo(c, 404, "NotFound", NoBody)
       ELSE IF SpecsOf(c.taskId) # {}
       THEN /\ UNCHANGED planning_specs
            /\ RespondTo(c, 400, "AlreadyLocked", NoBody)
       ELSE IF ~Complete(c.taskId)
       THEN /\ UNCHANGED planning_specs
            /\ RespondTo(c, 400, "Incomplete", NoBody)
       ELSE LET spec == [task_id |-> c.taskId,
                         spec_markdown |-> SpecMarkdown(Triples(c.taskId)),
                         created_at |-> DateTime(now)]
            IN  /\ planning_specs' = planning_specs \cup {spec}
                /\ RespondTo(c, 200, "OK", [questions |-> <<>>, spec |-> {spec}])

-----------------------------------------------------------------------------
(* PlanningTab: what the tab renders from the PlanningState it loaded *)

\* the lock button rendered whenever the question view is
LockOfferedAnyProgress(state) ==
    /\ Len(state.questions) # 0
    /\ ~(state.isLocked /\ state.spec # {})

\* The "Lock Spec" button is rendered: the tab is past the generate view
\* (state.questions.length === 0) and the locked view (state.isLocked &&
\* state.spec), and state.progress.percentage === 100
LockOffered(state) ==
    /\ Len(state.questions) # 0
    /\ ~(state.isLocked /\ state.spec # {})
    /\ state.progress.percentage = 100

\* the task the tab was opened for
TabTaskId == "t1"

\* fetch(...): the tab sends a request while none of its requests is in flight
Fetch(call) ==
    /\ issued < MaxFetches
    /\ calls = EmptyBag
    /\ calls' = SetToBag({call})
    /\ issued' = issued + 1
    /\ last' = NoResponse
    /\ UNCHANGED <<catalog, tasks, planning_questions, planning_specs, now>>

loadPlanningState == Fetch(Call("read", TabTaskId))

generateQuestions == Fetch(Call("generate", TabTaskId))

answerQuestion == Fetch(Call("answer", TabTaskId))

approveSpec == Fetch(Call("lock", TabTaskId))

-----------------------------------------------------------------------------
(* Specification *)

InitStore ==
    /\ tasks = [t \in {"t1"} |-> "inbox"]
    /\ planning_questions = {}
    /\ planning_specs = {}
    /\ calls = EmptyBag
    /\ issued = 0
    /\ now = 0
    /\ last = NoResponse

Init ==
    /\ catalog = CatalogOf(SpecCategories)
    /\ InitStore

Next ==
    \/ ReceiveRead
    \/ ReceiveGenerate
    \/ ReceiveAnswer
    \/ ReceiveLock
    \/ CreateTask
    \/ Tick
    \/ \E c \in InFlight : ReadBody(c)
    \/ \E c \in InFlight : GenerateBody(c)
    \/ \E c \in InFlight : GenerateBodyThrows(c)
    \/ \E c \in InFlight : AnswerBody(c)
    \/ \E c \in InFlight : LockBody(c)

Spec == Init /\ [][Next]_vars

\* Generation from the whole catalog: the requests are generate and read
InitGen ==
    /\ catalog = FullCatalog
    /\ InitStore

NextGen ==
    \/ ReceiveRead
    \/ ReceiveGenerate
    \/ CreateTask
    \/ \E c \in InFlight : ReadBody(c)
    \/ \E c \in InFlight : GenerateBody(c)
    \/ \E c \in InFlight : GenerateBodyThrows(c)

SpecGen == InitGen /\ [][NextGen]_vars

\* the sets of answered positions drawn for a task of n questions: the
\* first a and the last a positions
AnsweredSets(n) == {1..a : a \in 0..n} \cup {(n - a + 1)..n : a \in 0..n}

\* Reading progress: task t1 holds the first n rows of the batch of the
\* whole catalog (all of them, or the rows inserted before a failure), some
\* of them answered; the requests are read
InitProgress ==
    /\ catalog = FullCatalog
    /\ planning_specs = {}
    /\ calls = EmptyBag
    /\ issued = 0
    /\ now = 0
    /\ last = NoResponse
    /\ LET batch == GenerateRows("t1", FullCatalog, 1)
       IN  \E n \in 0..Len(batch) : \E A \in AnsweredSets(n) :
            /\ tasks = [t \in {"t1"} |-> IF n = 0 THEN "inbox" ELSE "planning"]
            /\ planning_questions =
                {IF i \in A
                    THEN [batch[i] EXCEPT !.answer = "Other", !.answered_at = DateTime(0)]
                    ELSE batch[i] : i \in 1..n}

NextProgress ==
    \/ ReceiveRead
    \/ \E c \in InFlight : ReadBody(c)

SpecProgress == InitProgress /\ [][NextProgress]_vars

\* The progress computation on its own: lines 115-124 of the read handler
\* applied, once in a behaviour, to a list of total questions of which
\* answered have an answer
ProgressOf(answered, total) ==
    [total |-> total, answered |-> answered, percentage |-> Percentage(answered, total)]

ComputeProgress ==
    /\ last = NoResponse
    /\ \E total \in 0..MaxTotal : \E answered \in 0..total :
        last' = [NoResponse EXCEPT
                    !.op = "progress",
                    !.body = [questions |-> <<>>, spec |-> {},
                              progress |-> ProgressOf(answered, total)]]
    /\ UNCHANGED <<catalog, tasks, planning_questions, planning_specs, calls, issued, now>>

InitRound ==
    /\ catalog = FullCatalog
    /\ InitStore

NextRound == ComputeProgress

SpecRound == InitRound /\ [][NextRound]_vars

\* Two tasks side by side: both exist and hold the batch a generate call
\* stored for them; the requests are answer and lock
InitTwo ==
    /\ catalog = CatalogOf(SpecCategories)
    /\ tasks = [t \in TaskIds |-> "planning"]
    /\ planning_questions =
        UNION {FirstK(GenerateRows(t, CatalogOf(SpecCategories), 1),
                      CatalogSize(CatalogOf(SpecCategories))) : t \in TaskIds}
    /\ planning_specs = {}
    /\ calls = EmptyBag
    /\ issued = 0
    /\ now = 0
    /\ last = NoResponse

NextTwo ==
    \/ ReceiveAnswer
    \/ ReceiveLock
    \/ Tick
    \/ \E c \in InFlight : AnswerBody(c)
    \/ \E c \in InFlight : LockBody(c)

SpecTwo == InitTwo /\ [][NextTwo]_vars

\* The categories SpecTab generates from: three templates
TabCategories == <<"audience", "timeline">>

\* One tab working on a fresh task: it generates, answers, reads and locks,
\* one request after the other
InitTab ==
    /\ catalog = CatalogOf(TabCategories)
    /\ InitStore

NextTab ==
    \/ loadPlanningState
    \/ generateQuestions
    \/ answerQuestion
    \/ approveSpec
    \/ Tick
    \/ \E c \in InFlight : ReadBody(c)
    \/ \E c \in InFlight : GenerateBody(c)
    \/ \E c \in InFlight : AnswerBody(c)
    \/ \E c \in InFlight : LockBody(c)

SpecTab == InitTab /\ [][NextTab]_vars

-----------------------------------------------------------------------------
(* Properties *)

\* the latest step answered an answer request whose body was a JSON object
AnswerResponse(r) == r.op = "answer" /\ r.wellFormed

\* the rows of the task that carry the id
RowsWithId(questionId, taskId) ==
    {q \in planning_questions : q.id = questionId /\ q.task_id = taskId}

\* C1: once a task has a Spec, no step changes any question row of that
\* task, whatever answer calls are made (any question, any value, the stored
\* value included): answers and answered-timestamps are frozen.
C1_FrozenAfterLock ==
    [][\A t \in TaskIds : SpecsOf(t) # {} => QuestionsOf(t)' = QuestionsOf(t)]_vars

\* C1 witness: an answer call on a locked task, for one of its questions,
\* with a non-empty value other than the stored one, has been answered.
C1_Witness ==
    /\ AnswerResponse(last) /\ Truthy(last.answer)
    /\ SpecsOf(last.taskId) # {}
    /\ \E q \in RowsWithId(last.questionId, last.taskId) : q.answer # last.answer

\* C2 as stated: on a locked task, every answer call for a question of the
\* task returns Locked.
C2_AnyAnswerLocked ==
    (/\ AnswerResponse(last)
     /\ SpecsOf(last.taskId) # {}
     /\ RowsWithId(last.questionId, last.taskId) # {})
        => last.outcome = "Locked"

\* C2 amended: on a locked task, every answer call that carries a non-empty
\* value for a question of the task returns Locked.
C2_NonEmptyAnswerLocked ==
    (/\ AnswerResponse(last) /\ Truthy(last.answer)
     /\ SpecsOf(last.taskId) # {}
     /\ RowsWithId(last.questionId, last.taskId) # {})
        => (last.outcome = "Locked" /\ last.status = 400)

\* C2 witness: such a call has returned Locked.
C2_Witness ==
    /\ AnswerResponse(last) /\ Truthy(last.answer)
    /\ SpecsOf(last.taskId) # {}
    /\ RowsWithId(last.questionId, last.taskId) # {}
    /\ last.outcome = "Locked"

\* C3: an answer call in flight together with a lock call on the same task
\* ends either written while the task has no Spec, or rejected with Locked
\* while it has one; every Spec equals the document of the stored answers.
C3_AnswerRacesLock ==
    /\ \A s \in planning_specs : s.spec_markdown = SpecMarkdown(Triples(s.task_id))
    /\ \A t \in TaskIds : Cardinality(SpecsOf(t)) <= 1
    /\ (AnswerResponse(last) /\ last.outcome = "OK") => SpecsOf(last.taskId) = {}
    /\ (AnswerResponse(last) /\ last.outcome = "Locked") => SpecsOf(last.taskId) # {}
    /\ (/\ AnswerResponse(last) /\ Truthy(last.answer)
        /\ RowsWithId(last.questionId, last.taskId) # {})
            => last.outcome \in {"OK", "Locked"}

\* C3 witness: the lock committed while an answer call on the same task was
\* in flight.
C3_Witness ==
    /\ last.op = "lock" /\ last.outcome = "OK"
    /\ \E c \in InFlight : c.op = "answer" /\ c.taskId = last.taskId

\* C4: a generate call on a task that has question rows returns
\* AlreadyGenerated and changes neither the question rows nor the tasks.
C4_GenerateTwice ==
    [][(last'.op = "generate" /\ QuestionsOf(last'.taskId) # {})
          => (/\ last'.outcome = "AlreadyGenerated"
              /\ planning_questions' = planning_questions
              /\ tasks' = tasks)]_vars

\* C4 witness: AlreadyGenerated was returned for a task with an answered question.
C4_Witness ==
    /\ last.op = "generate" /\ last.outcome = "AlreadyGenerated"
    /\ \E q \in QuestionsOf(last.taskId) : Truthy(q.answer)

\* the sort positions of the task's rows are pairwise different
UniqueSortOrder(taskId) ==
    \A q1, q2 \in QuestionsOf(taskId) : q1.sort_order = q2.sort_order => q1 = q2

\* the task has no more rows than one batch of the catalog
AtMostOneBatch(taskId) == CountQuestions(taskId) <= CatalogSize(catalog)

\* C5: generate succeeds only on a task without question rows and leaves it
\* with rows, rows never disappear, so of the generate calls on one task,
\* concurrent ones included, at most one succeeds; no task ever has a
\* duplicated sort position or more than one catalog batch.
C5_GenerateOnce ==
    [][/\ \A t \in TaskIds : UniqueSortOrder(t)' /\ AtMostOneBatch(t)'
       /\ \A t \in TaskIds : QuestionsOf(t) # {} => QuestionsOf(t)' # {}
       /\ \A t \in TaskIds :
            (last'.op = "generate" /\ last'.outcome = "OK" /\ last'.taskId = t)
                => (QuestionsOf(t) = {} /\ QuestionsOf(t)' # {})]_vars

\* C5 witness: a generate call succeeded while another generate call on the
\* same task was in flight.
C5_Witness ==
    /\ last.op = "generate" /\ last.outcome = "OK"
    /\ \E c \in InFlight : c.op = "generate" /\ c.taskId = last.taskId

\* the templates of a catalog with their categories, in catalog order
RECURSIVE Flatten(_)
Flatten(cat) ==
    IF cat = <<>> THEN <<>>
    ELSE [i \in 1..Len(Head(cat).templates) |->
            [category |-> Head(cat).category, template |-> Head(cat).templates[i]]]
         \o Flatten(Tail(cat))

\* the place of a category in the fixed category order
CategoryRank(category) ==
    CHOOSE i \in 1..8 :
        <<"goal", "audience", "scope", "design", "content", "technical", "timeline",
          "constraints">>[i] = category

\* C6: the n question rows of a task have the sort positions 0..n-1, each
\* once, counted through all categories; read by sort position they are the
\* first n templates of the catalog: categories in the fixed order, and the
\* templates of a category in template order.
C6_SortPositions ==
    LET expected == Flatten(catalog)
    IN  \A t \in TaskIds :
        LET rows == QuestionsOf(t)
            n == Cardinality(rows)
            seq == OrderBySortOrder(rows)
        IN  /\ {q.sort_order : q \in rows} = 0..(n - 1)
            /\ n <= Len(expected)
            /\ \A i \in 1..n :
                /\ seq[i].sort_order = i - 1
                /\ seq[i].category = expected[i].category
                /\ seq[i].question = expected[i].template.question
            /\ \A i, j \in 1..n :
                i < j => CategoryRank(seq[i].category) <= CategoryRank(seq[j].category)

\* C6 witness: a task holds the batch of the whole catalog, its last row in
\* the eighth category.
C6_Witness ==
    /\ last.op = "generate" /\ last.outcome = "OK"
    /\ CountQuestions(last.taskId) = Len(Flatten(FullCatalog))
    /\ \E q \in QuestionsOf(last.taskId) :
        q.sort_order = CountQuestions(last.taskId) - 1 /\ CategoryRank(q.category) = 8

\* the choices of a stored row
Choices(q) == IF q.options.null THEN <<>> ELSE JSONparse(q.options)

\* the first letters of the alphabet
Alphabet == <<"A", "B", "C", "D", "E", "F", "G", "H">>

\* C7: the question generated from a template with k options has k choices;
\* the i-th has the i-th letter as identifier and the i-th option as label.
C7_ChoiceIdentifiers ==
    LET expected == Flatten(catalog)
    IN  \A q \in planning_questions :
            \A i \in 1..Len(expected) :
                (/\ expected[i].category = q.category
                 /\ expected[i].template.question = q.question
                 /\ expected[i].template.hasOptions)
                    => LET options == expected[i].template.options
                           choices == Choices(q)
                       IN  /\ Len(choices) = Len(options)
                           /\ \A k \in 1..Len(options) :
                                /\ choices[k].id = Alphabet[k]
                                /\ choices[k].label = options[k]

\* C7 witness: questions with five and with four choices are stored, the
\* last choices named E and D.
C7_Witness ==
    /\ \E q \in planning_questions : Len(Choices(q)) = 5 /\ Choices(q)[5].id = "E"
    /\ \E q \in planning_questions : Len(Choices(q)) = 4 /\ Choices(q)[4].id = "D"

\* kind and choices of a row agree
KindMatchesChoices(q) ==
    /\ q.question_type \in {"multiple_choice", "text"}
    /\ q.question_type = "multiple_choice" <=> Len(Choices(q)) > 0
    /\ q.question_type = "text" <=> Len(Choices(q)) = 0

\* C8: every stored question is multiple_choice exactly if it has choices
\* and text exactly if it has none, and no step changes the kind or the
\* choices of a stored question.
C8_KindIffChoices ==
    [][/\ \A q \in planning_questions' : KindMatchesChoices(q)
       /\ \A q \in planning_questions : \E r \in planning_questions' :
            /\ r.id = q.id
            /\ r.question_type = q.question_type
            /\ r.options = q.options]_vars

\* C8 witness: a text question and a multiple-choice question are stored
\* and answered.
C8_Witness ==
    /\ AnswerResponse(last) /\ last.outcome = "OK"
    /\ \E q \in planning_questions : q.question_type = "text" /\ Truthy(q.answer)
    /\ \E q \in planning_questions : q.question_type = "multiple_choice" /\ Truthy(q.answer)

\* C9: an answer call with a non-empty value and a question id that no row
\* has, or that only rows of other tasks have, returns NotFound and changes
\* no question row.
C9_NotFound ==
    [][(/\ AnswerResponse(last') /\ Truthy(last'.answer) /\ Truthy(last'.questionId)
        /\ RowsWithId(last'.questionId, last'.taskId) = {})
          => (/\ last'.outcome = "NotFound" /\ last'.status = 404
              /\ planning_questions' = planning_questions)]_vars

\* C9 witness: NotFound was returned for the id of another task's question.
C9_Witness ==
    /\ AnswerResponse(last) /\ last.outcome = "NotFound"
    /\ \E q \in planning_questions : q.id = last.questionId /\ q.task_id # last.taskId

\* C10: an answer call with an empty or missing value returns InvalidInput
\* and changes no question row; no step turns a stored answer into an empty one.
C10_EmptyValue ==
    [][/\ (AnswerResponse(last') /\ ~Truthy(last'.answer))
            => (/\ last'.outcome = "InvalidInput" /\ last'.status = 400
                /\ planning_questions' = planning_questions)
       /\ \A r \in planning_questions' : r.answer # ""
       /\ \A q \in planning_questions : \A r \in planning_questions' :
            (r.id = q.id /\ Truthy(q.answer)) => Truthy(r.answer)]_vars

\* C10 witness: InvalidInput was returned for an empty value sent for a
\* question of the task that has a stored answer.
C10_Witness ==
    /\ AnswerResponse(last) /\ last.answer = "" /\ last.outcome = "InvalidInput"
    /\ \E q \in RowsWithId(last.questionId, last.taskId) : Truthy(q.answer)

\* the labels of the choices of a row
Labels(q) == {Choices(q)[k].label : k \in 1..Len(Choices(q))}

\* C11: an answer call with a non-empty value for a question of a task
\* without a Spec succeeds, whatever the kind of the question and whether or
\* not the value is a choice label; the row then holds exactly that value
\* and the current time, whatever it held before (last write wins), and no
\* other row changes.
C11_AnswerOverwrites ==
    [][(/\ AnswerResponse(last') /\ Truthy(last'.answer)
        /\ RowsWithId(last'.questionId, last'.taskId) # {}
        /\ SpecsOf(last'.taskId) = {})
          => (/\ last'.outcome = "OK" /\ last'.status = 200
              /\ \A q \in planning_questions :
                    IF q.id = last'.questionId
                    THEN [q EXCEPT !.answer = last'.answer,
                                   !.answered_at = DateTime(now)] \in planning_questions'
                    ELSE q \in planning_questions'
              /\ Cardinality(planning_questions') = Cardinality(planning_questions)
              /\ last'.body.questions[1].answer = last'.answer)]_vars

\* C11 witness: a multiple-choice question holds a value that is none of
\* its labels, written at a later time than the answer of a text question
\* that holds a choice label.
C11_Witness ==
    /\ AnswerResponse(last) /\ last.outcome = "OK"
    /\ \E q \in RowsWithId(last.questionId, last.taskId) :
        /\ q.question_type = "multiple_choice"
        /\ q.answer = last.answer /\ q.answer \notin Labels(q)
        /\ q.answered_at = DateTime(1)
    /\ \E q \in QuestionsOf(last.taskId) :
        /\ q.question_type = "text" /\ q.answer = "Other"
        /\ q.answered_at = DateTime(0)

\* the PlanningState the latest step returned for a read of an existing task
ReadState == last.op = "read" /\ last.outcome = "OK"

\* p is an integer nearest to num / den
Nearest(p, num, den) == 2 * (IF num >= p * den THEN num - p * den ELSE p * den - num) <= den

\* C12: the progress of a PlanningState returned by read has total = the
\* number of question rows of the task, answered = the number of those with
\* a non-empty answer, percentage = 0 for total = 0 and otherwise the
\* integer nearest to 100 * answered / total: 33 for 1 of 3, 67 for 2 of 3,
\* 25 for 1 of 4; 0 <= answered <= total and 0 <= percentage <= 100.
C12_Progress ==
    ReadState =>
        LET p == last.body.progress
            rows == QuestionsOf(last.taskId)
        IN  /\ p.total = Cardinality(rows)
            /\ p.answered = Cardinality({q \in rows : q.answer # NULL /\ q.answer # ""})
            /\ p.total = 0 => p.percentage = 0
            /\ p.total > 0 => Nearest(p.percentage, 100 * p.answered, p.total)
            /\ (p.total = 3 /\ p.answered = 1) => p.percentage = 33
            /\ (p.total = 3 /\ p.answered = 2) => p.percentage = 67
            /\ (p.total = 4 /\ p.answered = 1) => p.percentage = 25
            /\ 0 <= p.answered /\ p.answered <= p.total
            /\ 0 <= p.percentage /\ p.percentage <= 100

\* C12 witness: read returned 67 for a task with 2 of 3 questions answered.
C12_Witness ==
    /\ ReadState
    /\ CountQuestions(last.taskId) = 3
    /\ last.body.progress = [total |-> 3, answered |-> 2, percentage |-> 67]

\* the latest step computed a progress
ProgressComputed == last.op = "progress"

C15_IsLockedIffSpec ==
    /\ (last.op = "read" /\ TaskExists(last.taskId)) => last.outcome = "OK"
    /\ ReadState =>
        /\ last.status = 200
        /\ last.body.isLocked <=> SpecsOf(last.taskId) # {}
        /\ last.body.spec = SpecsOf(last.taskId)
        /\ QuestionsOf(last.taskId) = {} =>
            /\ last.body.questions = <<>>
            /\ last.body.progress = [total |-> 0, answered |-> 0, percentage |-> 0]
            /\ last.body.isLocked = FALSE

\* C15 witness: read returned isLocked true for a task with a Spec.
C15_Witness ==
    /\ ReadState /\ last.body.isLocked
    /\ SpecsOf(last.taskId) # {}

\* C16: a step that answers a read changes no task, no question row and no
\* Spec; a read answered directly after a read of the same task, with no
\* step between them, returns the same status and the same PlanningState.
C16_ReadIsPure ==
    [][/\ last'.op = "read" =>
            /\ tasks' = tasks
            /\ planning_questions' = planning_questions
            /\ planning_specs' = planning_specs
       /\ (last.op = "read" /\ last'.op = "read" /\ last'.taskId = last.taskId) =>
            /\ last'.status = last.status
            /\ last'.body = last.body]_vars

\* C16 witness: read was answered for a task with an answered question
\* while a second read of the task is in flight.
C16_Witness ==
    /\ ReadState
    /\ \E q \in QuestionsOf(last.taskId) : Truthy(q.answer)
    /\ \E c \in InFlight : c.op = "read" /\ c.taskId = last.taskId

\* C17: a read or generate call for a task id that no task has returns
\* NotFound (404) and changes neither the question rows nor the tasks; no
\* question row ever belongs to a task that does not exist.
C17_UnknownTask ==
    [][/\ (last'.op \in {"read", "generate"} /\ last'.taskId \notin DOMAIN tasks) =>
            /\ last'.outcome = "NotFound" /\ last'.status = 404
            /\ planning_questions' = planning_questions
            /\ tasks' = tasks
       /\ \A q \in planning_questions' : q.task_id \in DOMAIN tasks']_vars

\* C17 witness: generate returned NotFound for an id that no task has,
\* while another task has questions.
C17_Witness ==
    /\ last.op = "generate" /\ last.outcome = "NotFound"
    /\ last.taskId \notin DOMAIN tasks
    /\ planning_questions # {}

\* C18: a step that answers a generate, answer or read call leaves the
\* Specs as they are; the Specs change only by a successful lock, which
\* adds one; no Spec is ever removed or changed, and no task ever has more
\* than one.
C18_SpecsOnlyByLock ==
    [][/\ last'.op \in {"generate", "answer", "read"} => planning_specs' = planning_specs
       /\ planning_specs' # planning_specs =>
            /\ last'.op = "lock" /\ last'.outcome = "OK"
            /\ Cardinality(planning_specs') = Cardinality(planning_specs) + 1
       /\ planning_specs \subseteq planning_specs'
       /\ \A s1, s2 \in planning_specs' : s1.task_id = s2.task_id => s1 = s2]_vars

\* C18 witness: an answer call was answered for a task with a Spec, after
\* the clock has moved on from the time the Spec was created.
C18_Witness ==
    /\ last.op = "answer"
    /\ \E s \in planning_specs :
        /\ s.task_id = last.taskId
        /\ s.created_at = DateTime(0)
    /\ now = 1

\* C19: a generate call that succeeds was made for an existing task without
\* question rows; it sets the task's status to planning and stores one row
\* per template of the catalog, unanswered; the PlanningState it returns
\* lists exactly these rows, with total = the size of the batch,
\* answered = 0, percentage = 0 and isLocked false, and equals the
\* PlanningState that read builds from the store it leaves behind.
C19_GenerateReturnsBatch ==
    /\ [][LET expected == Flatten(catalog)
              size == CatalogSize(catalog)
              added == planning_questions' \ planning_questions
          IN  \A t \in TaskIds :
               (last'.op = "generate" /\ last'.outcome = "OK" /\ last'.taskId = t) =>
                   /\ t \in DOMAIN tasks /\ QuestionsOf(t) = {}
                   /\ tasks'[t] = "planning"
                   /\ \A u \in DOMAIN tasks \ {t} : tasks'[u] = tasks[u]
                   /\ planning_questions \subseteq planning_questions'
                   /\ \A q \in added :
                       /\ q.task_id = t
                       /\ q.answer = NULL /\ q.answered_at = NullTime
                   /\ Cardinality(added) = size
                   /\ {<<q.category, q.question>> : q \in added}
                       = {<<expected[i].category, expected[i].template.question>>
                           : i \in 1..size}
                   /\ Len(last'.body.questions) = size
                   /\ {last'.body.questions[i].id : i \in 1..size} = {q.id : q \in added}
                   /\ \A i \in 1..size : last'.body.questions[i].answer = NULL
                   /\ last'.body.progress = [total |-> size, answered |-> 0, percentage |-> 0]
                   /\ last'.body.isLocked = FALSE]_vars
    /\ [](last.op = "generate" /\ last.outcome = "OK"
            => last.body = PlanningStateOf(last.taskId))

\* C19 witness: generate returned the 16 questions of the catalog for a
\* task now being planned, while a read of the task is in flight.
C19_Witness ==
    /\ last.op = "generate" /\ last.outcome = "OK"
    /\ tasks[last.taskId] = "planning"
    /\ Len(last.body.questions) = 16
    /\ \E c \in InFlight : c.op = "read" /\ c.taskId = last.taskId

\* the number of questions generate produces from the catalog
N == CatalogSize(catalog)

\* C20: the built-in catalog has 16 templates; generate on the fresh task
\* stores N questions, N the size of the catalog; once every one of them has
\* a non-empty answer, in whatever order they were answered, read reports
\* total = answered = N and percentage = 100 and, unless the task is locked,
\* the tab offers the lock; a lock call on the task then succeeds and
\* stores a Spec of the task; and read of a task with a Spec reports
\* isLocked true.
C20_EndToEnd ==
    /\ [](CatalogSize(FullCatalog) = 16)
    /\ [](last.op = "generate" /\ last.outcome = "OK"
            => CountQuestions(last.taskId) = N /\ last.body.progress.total = N)
    /\ [](ReadState /\ QuestionsOf(last.taskId) # {}
            /\ (\A q \in QuestionsOf(last.taskId) : Truthy(q.answer))
            => /\ last.body.progress = [total |-> N, answered |-> N, percentage |-> 100]
               /\ SpecsOf(last.taskId) = {} => LockOffered(last.body))
    /\ [][\A t \in TaskIds :
            (/\ last'.op = "lock" /\ last'.taskId = t
             /\ CountQuestions(t) = N
             /\ \A q \in QuestionsOf(t) : Truthy(q.answer)
             /\ {s \in planning_specs : s.task_id = t} = {})
                => /\ last'.outcome = "OK" /\ last'.status = 200
                   /\ \E s \in planning_specs' : s.task_id = t /\ last'.body.spec = {s}]_vars
    /\ [](ReadState /\ (\E s \in planning_specs : s.task_id = last.taskId)
            => last.body.isLocked)

\* C20 witness: read reports isLocked true and 100 percent for the task
\* whose questions were all answered, the last one of the catalog before
\* the first.
C20_Witness ==
    /\ ReadState /\ last.body.isLocked
    /\ last.body.progress = [total |-> 3, answered |-> 3, percentage |-> 100]
    /\ \E q \in QuestionsOf(last.taskId) : q.sort_order = 2 /\ q.answered_at = DateTime(0)
    /\ \E q \in QuestionsOf(last.taskId) : q.sort_order = 0 /\ q.answered_at = DateTime(1)

\* C21: every task has either no question row or the complete batch of the
\* catalog, in every reachable state; a generate call that ends with an
\* internal failure leaves the task status and the question rows as they were.
C21_BatchOrNothing ==
    /\ [](\A t \in TaskIds : CountQuestions(t) \in {0, CatalogSize(catalog)})
    /\ [][(last'.op = "generate" /\ last'.outcome = "InternalFailure")
            => (tasks' = tasks /\ planning_questions' = planning_questions)]_vars

\* C21 witness: a generate call was refused with AlreadyGenerated for a task
\* that holds only a part of the batch, left behind by a generate call that
\* failed partway through.
C21_Witness ==
    /\ last.op = "generate" /\ last.outcome = "AlreadyGenerated"
    /\ tasks[last.taskId] = "planning"
    /\ CountQuestions(last.taskId) > 0
    /\ CountQuestions(last.taskId) < CatalogSize(catalog)

\* C22: a step that answers an answer call with success replaces exactly
\* one row, the row of the call's task with the call's question id, by the
\* same row with the new answer and the current time: no other field of it,
\* no other row of any task, no Spec and no task changes, and the number of
\* rows stays the same.  An answer call is rejected as locked only if its
\* own task has a Spec: with a non-empty value for a question of a task
\* without a Spec it succeeds, whatever Specs the other tasks have.
C22_AnswerFrame ==
    [][/\ (AnswerResponse(last') /\ last'.outcome = "OK") =>
            /\ \E q \in planning_questions :
                /\ q.id = last'.questionId /\ q.task_id = last'.taskId
                /\ planning_questions' =
                    (planning_questions \ {q}) \cup
                        {[q EXCEPT !.answer = last'.answer, !.answered_at = DateTime(now)]}
            /\ Cardinality(planning_questions') = Cardinality(planning_questions)
            /\ planning_specs' = planning_specs
            /\ tasks' = tasks
       /\ (AnswerResponse(last') /\ last'.outcome = "Locked") =>
            \E s \in planning_specs : s.task_id = last'.taskId
       /\ (/\ AnswerResponse(last') /\ Truthy(last'.answer)
           /\ RowsWithId(last'.questionId, last'.taskId) # {}
           /\ \A s \in planning_specs : s.task_id # last'.taskId)
            => last'.outcome = "OK"]_vars

\* C22 witness: an answer call succeeded on a task while the other task has
\* a Spec and answered questions.
C22_Witness ==
    /\ AnswerResponse(last) /\ last.outcome = "OK"
    /\ \E s \in planning_specs : s.task_id # last.taskId
    /\ \E q \in planning_questions : q.task_id # last.taskId /\ Truthy(q.answer)

\* the number of questions of the task that have a non-empty answer
AnsweredCount(taskId) == Cardinality({q \in QuestionsOf(taskId) : Truthy(q.answer)})

\* answered = total and total > 0
LockEligible(taskId) ==
    CountQuestions(taskId) > 0 /\ AnsweredCount(taskId) = CountQuestions(taskId)

\* C23: in every step, whatever call it answers, a question with a
\* non-empty answer is still stored and still has a non-empty answer, the
\* number of answered questions of a task does not decrease, a task with
\* answered = total > 0 stays so, and of two reads of a task answered one
\* after the other the second reports no fewer answered questions.
C23_ProgressMonotone ==
    [][/\ \A q \in planning_questions : Truthy(q.answer) =>
            \E r \in planning_questions' :
                r.id = q.id /\ r.task_id = q.task_id /\ Truthy(r.answer)
       /\ \A t \in TaskIds : AnsweredCount(t)' >= AnsweredCount(t)
       /\ \A t \in TaskIds : LockEligible(t) => LockEligible(t)'
       /\ (/\ last.op = "read" /\ last.outcome = "OK"
           /\ last'.op = "read" /\ last'.outcome = "OK" /\ last'.taskId = last.taskId)
            => last'.body.progress.answered >= last.body.progress.answered]_vars

\* C23 witness: an answer call with an empty value was rejected for a task
\* whose two questions are both answered.
C23_Witness ==
    /\ AnswerResponse(last) /\ last.answer = "" /\ last.outcome = "InvalidInput"
    /\ RowsWithId(last.questionId, last.taskId) # {}
    /\ LockEligible(last.taskId)
    /\ CountQuestions(last.taskId) = CatalogSize(catalog)

====
